---- MODULE Spec2Model ----
(***************************************************************************)
(* Model of the EPIAS data pipeline: month partitioning of a date range,   *)
(* the four fetch operations of EpiasClient, the hourly settlement table   *)
(* of build_plant_dataframe, and build_monthly_summary.                    *)
(*                                                                         *)
(* Numbers.  Prices and volumes are integers.  The factors 0.97 and 1.03   *)
(* are kept exact by carrying every price-derived column in hundredths     *)
(* (Scale = 100), so Poz_DF = min*97 and Neg_DF = max*103.  A quotient is  *)
(* kept as an unreduced fraction <<numerator, denominator>>.  The missing  *)
(* value of pandas (NaN / NaT / None) is the model value NaN, and float    *)
(* rounding is not modelled: arithmetic is exact.                          *)
(***************************************************************************)
EXTENDS Integers, Sequences, FiniteSets, TLC

VARIABLES
    \* ---- month_start_end_strings called on its own
    start_dt,       \* argument start_dt (a datetime)
    end_dt,         \* argument end_dt (a datetime)
    ranges,         \* the returned list of (period_start, period_end) strings
    part_pc,        \* "off" | "call" | "returned" | "ValueError"
    \* ---- the tables of build_plant_dataframe and build_monthly_summary
    kgup_df,        \* what fetch_kgup returned: rows datetime, Tarih, Saat, KGUP
    uretim_df,      \* what fetch_uretim returned: rows datetime, URETIM
    ptf_df,         \* what fetch_ptf returned: rows datetime, PTF
    smf_df,         \* what fetch_smf returned: rows datetime, SMF
    pp1_df,         \* the hourly table build_plant_dataframe returned
    sum1,           \* the table build_monthly_summary returned
    tbl_exc,        \* the exception build_plant_dataframe raised, or "none"
    tbl_pc,         \* "off" | "fetched" | "built" | "raised" | "summarised"
    \* ---- EpiasClient and one call of a fetch operation
    tgt,            \* self.tgt: the token text, NaN when it is None or empty
    f_op,           \* "ptf" | "smf" | "kgup" | "uretim": the operation called
    f_plant,        \* the plant of the call (0: the operation takes none)
    f_i,            \* how many sub-ranges the loop has completed
    f_rows,         \* the local rows
    f_df,           \* the table the call returned
    f_pc,           \* "off" | "idle" | "loop" | "returned" | "raised"
    f_exc,          \* the exception the call raised, or "none"
    sent,           \* the requests sent so far, each with its response status
    \* ---- the run_btn handler of streamlit_app.py
    pipe_pc,        \* the statement the handler is at, "off" outside a run
    pp2_df,         \* the hourly table of the second plant
    sum2,           \* the monthly summary of the second plant
    pp1_extras,     \* what compute_monthly_extras returned for plant 1
    pp2_extras,     \* what compute_monthly_extras returned for plant 2
    xlsx,           \* the spreadsheet offered for download, NaN when none
    \* ---- _col_letter called on its own
    idx_zero_based, \* the argument
    idx,            \* the local idx
    letters,        \* the local letters
    col_pc,         \* "off" | "loop" | "returned"
    \* ---- _build_datetime called on one record
    bd_date,        \* the record's date field
    bd_hour,        \* the record's hour field, NaN when it is None
    bd_out,         \* the returned row: datetime, Tarih, Saat
    bd_pc           \* "off" | "call" | "returned"

partVars == <<start_dt, end_dt, ranges, part_pc>>
tblVars == <<kgup_df, uretim_df, ptf_df, smf_df, pp1_df, sum1, tbl_exc, tbl_pc>>
fetchVars == <<tgt, f_op, f_plant, f_i, f_rows, f_df, f_pc, f_exc, sent>>
pipeVars == <<pipe_pc, pp2_df, sum2, pp1_extras, pp2_extras, xlsx>>
colVars == <<idx_zero_based, idx, letters, col_pc>>
stampVars == <<bd_date, bd_hour, bd_out, bd_pc>>
vars == <<partVars, tblVars, fetchVars, pipeVars, colVars, stampVars>>

\* the missing value (None, NaN, NaT): the empty tuple
NaN == <<>>

\* the table variables when no table is being built
TblOff ==
    /\ kgup_df = <<>> /\ uretim_df = <<>> /\ ptf_df = <<>> /\ smf_df = <<>>
    /\ pp1_df = <<>> /\ sum1 = <<>> /\ tbl_exc = "none" /\ tbl_pc = "off"

\* the client and pipeline variables when no fetch and no run is modelled
FetchOff ==
    /\ tgt = NaN /\ f_op = "none" /\ f_plant = 0 /\ f_i = 0 /\ f_rows = <<>>
    /\ f_df = <<>> /\ f_pc = "off" /\ f_exc = "none" /\ sent = <<>>

PipeOff ==
    /\ pipe_pc = "off" /\ pp2_df = <<>> /\ sum2 = <<>>
    /\ pp1_extras = NaN /\ pp2_extras = NaN /\ xlsx = NaN

\* the variables of _col_letter and _build_datetime when they are not called
\* on their own
ColOff ==
    /\ idx_zero_based = 0 /\ idx = 0 /\ letters = <<>> /\ col_pc = "off"

StampOff ==
    /\ bd_date = NaN /\ bd_hour = NaN /\ bd_out = NaN /\ bd_pc = "off"

\* the partitioning variables when month_start_end_strings is not called alone
PartOff ==
    /\ start_dt = NaN /\ end_dt = NaN /\ ranges = <<>> /\ part_pc = "off"

(***************************************************************************)
(* datetime: <<year, month, day, hour, minute, second>>, compared field by *)
(* field as Python compares naive datetimes.                               *)
(***************************************************************************)
datetime(y, m, d) == <<y, m, d, 0, 0, 0>>

DtLT(a, b) == \E i \in 1..6 : a[i] < b[i] /\ \A j \in 1..(i - 1) : a[j] = b[j]

DtLE(a, b) == a = b \/ DtLT(a, b)

DtMax(a, b) == IF DtLT(a, b) THEN b ELSE a

DtMin(a, b) == IF DtLT(b, a) THEN b ELSE a

IsLeap(y) == (y % 4 = 0 /\ y % 100 # 0) \/ y % 400 = 0

DaysInMonth(y, m) ==
    IF m = 2 THEN (IF IsLeap(y) THEN 29 ELSE 28)
    ELSE IF m \in {4, 6, 9, 11} THEN 30 ELSE 31

\* dt - timedelta(days=1): the time of day is kept, the date goes back a day
MinusOneDay(dt) ==
    IF dt[3] > 1 THEN <<dt[1], dt[2], dt[3] - 1, dt[4], dt[5], dt[6]>>
    ELSE IF dt[2] > 1
         THEN <<dt[1], dt[2] - 1, DaysInMonth(dt[1], dt[2] - 1), dt[4], dt[5], dt[6]>>
         ELSE <<dt[1] - 1, 12, 31, dt[4], dt[5], dt[6]>>

\* dt.strftime(ISO_FMT): the six fields in order, then the fixed "+03:00"
\* suffix (the suffix is literal text of the format, not a conversion)
strftime(dt) == <<dt[1], dt[2], dt[3], dt[4], dt[5], dt[6], "+03:00">>

\* the month after cursor's, first day, midnight (lines 34-37)
next_month_of(cursor) ==
    IF cursor[2] = 12 THEN datetime(cursor[1] + 1, 1, 1)
    ELSE datetime(cursor[1], cursor[2] + 1, 1)

period_start_of(s, cursor) == DtMax(s, cursor)

period_end_mut(e, next_month) == DtMin(e, next_month)

period_end_of(e, next_month) == DtMin(e, MinusOneDay(next_month))

RECURSIVE MonthLoop(_, _, _, _)
MonthLoop(cursor, s, e, acc) ==
    IF ~DtLE(cursor, e) THEN acc
    ELSE LET next_month == next_month_of(cursor)
         IN  MonthLoop(next_month, s, e,
                 Append(acc, <<strftime(period_start_of(s, cursor)),
                               strftime(period_end_of(e, next_month))>>))

\* month_start_end_strings: [raised |-> "ValueError"] or the list of ranges
month_start_end_strings(s, e) ==
    IF DtLT(e, s) THEN [raised |-> "ValueError", ranges |-> <<>>]
    ELSE LET c0 == datetime(s[1], s[2], 1)
             cursor == IF DtLT(c0, datetime(s[1], s[2], 1))
                       THEN datetime(s[1], s[2], 1) ELSE c0
         IN  [raised |-> "none", ranges |-> MonthLoop(cursor, s, e, <<>>)]

(***************************************************************************)
(* Strings are sequences of one-character strings.  _build_datetime reads  *)
(* them with three regular expressions and pd.to_datetime.                 *)
(***************************************************************************)
DigitChars == <<"0", "1", "2", "3", "4", "5", "6", "7", "8", "9">>

IsDigit(c) == \E i \in 1..10 : DigitChars[i] = c

DigitVal(c) == (CHOOSE i \in 1..10 : DigitChars[i] = c) - 1

Num2(str, i) == DigitVal(str[i]) * 10 + DigitVal(str[i + 1])

Num4(str, i) == Num2(str, i) * 100 + Num2(str, i + 2)

\* astype(str) of a cell: None becomes the text "None"
astype_str(x) == IF x = NaN THEN <<"N", "o", "n", "e">> ELSE x

\* does \d{2}:\d{2} match str at position i
MatchesHHMM(str, i) ==
    /\ i >= 1 /\ Len(str) >= i + 4
    /\ IsDigit(str[i]) /\ IsDigit(str[i + 1]) /\ str[i + 2] = ":"
    /\ IsDigit(str[i + 3]) /\ IsDigit(str[i + 4])

\* str.extract(r'^(\d{4}-\d{2}-\d{2})')[0]
extract_day(str) ==
    IF /\ Len(str) >= 10
       /\ \A i \in {1, 2, 3, 4, 6, 7, 9, 10} : IsDigit(str[i])
       /\ str[5] = "-" /\ str[8] = "-"
    THEN SubSeq(str, 1, 10) ELSE NaN

\* str.extract(r'^(\d{2}:\d{2})')[0]
extract_hour(str) == IF MatchesHHMM(str, 1) THEN SubSeq(str, 1, 5) ELSE NaN

\* str.extract(r'T(\d{2}:\d{2})')[0]: the leftmost match
extract_T_hour(str) ==
    LET hits == {i \in 1..Len(str) : str[i] = "T" /\ MatchesHHMM(str, i + 1)}
    IN  IF hits = {} THEN NaN
        ELSE LET i == CHOOSE k \in hits : \A j \in hits : k <= j
             IN  SubSeq(str, i + 1, i + 5)

\* fillna: the first value unless it is missing
fillna(x, y) == IF x = NaN THEN y ELSE x

\* pd.to_datetime(day + " " + hour, format="%Y-%m-%d %H:%M", errors="coerce")
to_datetime(day, hour) ==
    IF day = NaN THEN NaN
    ELSE LET y == Num4(day, 1)
             m == Num2(day, 6)
             d == Num2(day, 9)
             hh == Num2(hour, 1)
             mi == Num2(hour, 4)
         IN  IF /\ y >= 1678 /\ y <= 2261 /\ m >= 1 /\ m <= 12
                /\ d >= 1 /\ d <= DaysInMonth(y, m) /\ hh <= 23 /\ mi <= 59
             THEN <<y, m, d, hh, mi, 0>> ELSE NaN

build_datetime_mut(date, hour) ==
    LET day == extract_day(astype_str(date))
        hour_norm == extract_hour(astype_str(hour))
        derived_from_date == extract_T_hour(astype_str(date))
        hour_final == fillna(fillna(derived_from_date, hour_norm),
                             <<"0", "0", ":", "0", "0">>)
    IN  [datetime |-> to_datetime(day, hour_final), Tarih |-> day, Saat |-> hour_final]

\* _build_datetime on one row: the columns it adds
build_datetime(date, hour) ==
    LET day == extract_day(astype_str(date))
        hour_norm == extract_hour(astype_str(hour))
        derived_from_date == extract_T_hour(astype_str(date))
        hour_final == fillna(fillna(hour_norm, derived_from_date),
                             <<"0", "0", ":", "0", "0">>)
    IN  [datetime |-> to_datetime(day, hour_final), Tarih |-> day, Saat |-> hour_final]

\* what each fetch operation returns for the rows it accumulated
\* (rows: sequence of [date, hour, value]); no rows give the empty DataFrame
kgup_table(rows) ==
    [i \in 1..Len(rows) |->
        LET b == build_datetime(rows[i].date, rows[i].hour)
        IN  [datetime |-> b.datetime, Tarih |-> b.Tarih, Saat |-> b.Saat,
             KGUP |-> rows[i].value]]

uretim_table(rows) ==
    [i \in 1..Len(rows) |->
        [datetime |-> build_datetime(rows[i].date, rows[i].hour).datetime,
         URETIM |-> rows[i].value]]

ptf_table(rows) ==
    [i \in 1..Len(rows) |->
        [datetime |-> build_datetime(rows[i].date, rows[i].hour).datetime,
         PTF |-> rows[i].value]]

smf_table(rows) ==
    [i \in 1..Len(rows) |->
        [datetime |-> build_datetime(rows[i].date, rows[i].hour).datetime,
         SMF |-> rows[i].value]]

(***************************************************************************)
(* pandas merge on "datetime".  Keys that are both missing (NaT) match     *)
(* each other, and every pair of matching rows gives a row.                *)
(***************************************************************************)
MergeRow(l, R, how, col) ==
    LET M == SelectSeq(R, LAMBDA r : r.datetime = l.datetime)
    IN  IF Len(M) = 0
        THEN (IF how = "left" THEN <<l @@ (col :> NaN)>> ELSE <<>>)
        ELSE [k \in 1..Len(M) |-> l @@ (col :> M[k][col])]

RECURSIVE merge(_, _, _, _)
merge(L, R, how, col) ==
    IF L = <<>> THEN <<>>
    ELSE MergeRow(Head(L), R, how, col) \o merge(Tail(L), R, how, col)

(***************************************************************************)
(* Cells.  A numeric cell is <<v>> (the number v), <<n, d>> (the quotient  *)
(* n / d of a float division) or NaN (missing).  Arithmetic with a missing *)
(* operand gives a missing result.                                         *)
(***************************************************************************)
Num(v) == <<v>>

Scale == 100

Mul(a, b) == IF a = NaN \/ b = NaN THEN NaN ELSE Num(a[1] * b[1])

Add(a, b) == IF a = NaN \/ b = NaN THEN NaN ELSE Num(a[1] + b[1])

Sub(a, b) == IF a = NaN \/ b = NaN THEN NaN ELSE Num(a[1] - b[1])

\* DataFrame.min(axis=1) / max(axis=1) skip missing cells
RowMin(a, b) ==
    IF a = NaN THEN b ELSE IF b = NaN THEN a ELSE IF a[1] <= b[1] THEN a ELSE b

RowMax(a, b) ==
    IF a = NaN THEN b ELSE IF b = NaN THEN a ELSE IF a[1] >= b[1] THEN a ELSE b

\* Series.clip(lower=0)
clip_lower0(x) == IF x = NaN THEN NaN ELSE IF x[1] < 0 THEN Num(0) ELSE x

imbalance_amount_mut(deng, poz, neg) ==
    IF deng = NaN THEN Num(0) ELSE Mul(deng, IF deng[1] >= 0 THEN neg ELSE poz)

\* _imbalance_amount (lines 190-193), result in hundredths
imbalance_amount(deng, poz, neg) ==
    IF deng = NaN THEN Num(0) ELSE Mul(deng, IF deng[1] >= 0 THEN poz ELSE neg)

\* the outcome of a float division by zero: Python raises ZeroDivisionError
ZeroDivisionError == <<0, 0>>

\* float(a) / float(b) on Python floats
Div(a, b) ==
    IF b = Num(0) THEN ZeroDivisionError
    ELSE IF a = NaN \/ b = NaN THEN NaN ELSE <<a[1], b[1]>>

unit_cost_mut(uretim_val, maliyet) ==
    IF uretim_val = NaN THEN Num(0) ELSE Div(maliyet, uretim_val)

\* _unit_cost (lines 197-201)
unit_cost(uretim_val, maliyet) ==
    IF uretim_val = NaN \/ uretim_val = Num(0) THEN Num(0)
    ELSE Div(maliyet, uretim_val)

\* lines 181-202 on one joined row; Poz_DF, Neg_DF, GOP_Geliri,
\* Dengesizlik_Tutari, Net_Gelir and Dengesizlik_Maliyeti are in hundredths,
\* Birim_DM is a quotient of hundredths, and the returned columns are those
\* of lines 203-210 (datetime is not among them)
derive(r) ==
    LET Ay == IF r.datetime = NaN THEN NaN ELSE Num(r.datetime[2])
        Poz_DF == Mul(RowMin(r.PTF, r.SMF), Num(97))
        Neg_DF == Mul(RowMax(r.PTF, r.SMF), Num(103))
        Dengesizlik == Sub(r.URETIM, r.KGUP)
        GOP_Geliri == Mul(Mul(r.KGUP, r.PTF), Num(Scale))
        Tutar == imbalance_amount(Dengesizlik, Poz_DF, Neg_DF)
        Net_Gelir == Add(GOP_Geliri, Tutar)
        Maliyet == clip_lower0(Sub(Mul(Mul(r.URETIM, r.PTF), Num(Scale)), Net_Gelir))
    IN  [Tarih |-> r.Tarih, Ay |-> Ay, Saat |-> r.Saat,
         PTF |-> r.PTF, SMF |-> r.SMF, Poz_DF |-> Poz_DF, Neg_DF |-> Neg_DF,
         KGUP |-> r.KGUP, URETIM |-> r.URETIM, Dengesizlik |-> Dengesizlik,
         GOP_Geliri |-> GOP_Geliri, Dengesizlik_Tutari |-> Tutar,
         Net_Gelir |-> Net_Gelir, Dengesizlik_Maliyeti |-> Maliyet,
         Birim_DM |-> unit_cost(r.URETIM, Maliyet)]

\* build_plant_dataframe from line 169 on: [raised, df]
build_table(kgup, uretim, ptf, smf) ==
    IF kgup = <<>> \/ uretim = <<>> THEN [raised |-> "none", df |-> <<>>]
    ELSE LET df0 == merge(kgup, uretim, "inner", "URETIM")
             df1 == IF ptf # <<>> THEN merge(df0, ptf, "left", "PTF") ELSE df0
             df2 == IF smf # <<>> THEN merge(df1, smf, "left", "SMF") ELSE df1
         IN  IF ptf = <<>> \/ smf = <<>>
             THEN [raised |-> "KeyError", df |-> <<>>]
             ELSE LET rows == [i \in 1..Len(df2) |-> derive(df2[i])]
                  IN  IF \E i \in 1..Len(rows) : rows[i].Birim_DM = ZeroDivisionError
                      THEN [raised |-> "ZeroDivisionError", df |-> <<>>]
                      ELSE [raised |-> "none", df |-> rows]

(***************************************************************************)
(* build_monthly_summary.                                                  *)
(***************************************************************************)
\* Series.sum(): missing cells are skipped, no cells give 0
RECURSIVE SumCol(_, _)
SumCol(rows, col) ==
    IF rows = <<>> THEN 0
    ELSE (IF Head(rows)[col] = NaN THEN 0 ELSE Head(rows)[col][1])
         + SumCol(Tail(rows), col)

\* the lambda of lines 79-80: numerator / URETIM unless URETIM is 0
unit_metric(numer, uretim) ==
    IF uretim = Num(0) THEN Num(0) ELSE <<numer[1], uretim[1]>>

reindex_months_mut == [i \in 1..11 |-> i]

\* range(1, 12 + 1) of line 75
reindex_months == [i \in 1..12 |-> i]

\* groupby("Ay", dropna=False).agg(sum) of one group
agg_group(df, key) ==
    LET g == SelectSeq(df, LAMBDA r : r.Ay = key)
    IN  [URETIM |-> Num(SumCol(g, "URETIM")),
         Dengesizlik |-> Num(SumCol(g, "Dengesizlik")),
         GOP_Geliri |-> Num(SumCol(g, "GOP_Geliri")),
         Dengesizlik_Tutari |-> Num(SumCol(g, "Dengesizlik_Tutari")),
         Net_Gelir |-> Num(SumCol(g, "Net_Gelir")),
         Dengesizlik_Maliyeti |-> Num(SumCol(g, "Dengesizlik_Maliyeti"))]

\* the row reindex(..., fill_value=0) gives for a month without a group
fill_value_row ==
    [URETIM |-> Num(0), Dengesizlik |-> Num(0), GOP_Geliri |-> Num(0),
     Dengesizlik_Tutari |-> Num(0), Net_Gelir |-> Num(0),
     Dengesizlik_Maliyeti |-> Num(0)]

\* lines 65-92: the month rows
month_rows(df) ==
    LET groups == {df[i].Ay : i \in 1..Len(df)}
    IN  [i \in 1..Len(reindex_months) |->
            LET m == reindex_months[i]
                a == IF Num(m) \in groups THEN agg_group(df, Num(m))
                     ELSE fill_value_row
            IN  [Ay |-> Num(m), URETIM |-> a.URETIM,
                 Dengesizlik |-> a.Dengesizlik, GOP_Geliri |-> a.GOP_Geliri,
                 Dengesizlik_Tutari |-> a.Dengesizlik_Tutari,
                 Net_Gelir |-> a.Net_Gelir,
                 Birim_Gelir |-> unit_metric(a.Net_Gelir, a.URETIM),
                 Dengesizlik_Maliyeti |-> a.Dengesizlik_Maliyeti,
                 Birim_Deng_Maliyeti |-> unit_metric(a.Dengesizlik_Maliyeti, a.URETIM)]]

\* lines 94-108: the totals row, from the month rows
total_row(out) ==
    LET uretim == Num(SumCol(out, "URETIM"))
        net == Num(SumCol(out, "Net_Gelir"))
        maliyet == Num(SumCol(out, "Dengesizlik_Maliyeti"))
    IN  [Ay |-> <<"Toplam">>, URETIM |-> uretim,
         Dengesizlik |-> Num(SumCol(out, "Dengesizlik")),
         GOP_Geliri |-> Num(SumCol(out, "GOP_Geliri")),
         Dengesizlik_Tutari |-> Num(SumCol(out, "Dengesizlik_Tutari")),
         Net_Gelir |-> net,
         Birim_Gelir |-> IF uretim # Num(0) THEN <<net[1], uretim[1]>> ELSE Num(0),
         Dengesizlik_Maliyeti |-> maliyet,
         Birim_Deng_Maliyeti |->
             IF uretim # Num(0) THEN <<maliyet[1], uretim[1]>> ELSE Num(0)]

\* build_monthly_summary (lines 63-110)
build_monthly_summary(df) ==
    LET out == month_rows(df) IN Append(out, total_row(out))

(***************************************************************************)
(* compute_monthly_extras (streamlit_app.py lines 159-241).  A percentage  *)
(* (x / y) * 100.0 is kept unevaluated as <<x, y, 100>>.                   *)
(***************************************************************************)
\* days_2024 of line 161
days_2024 == <<31, 29, 31, 30, 31, 30, 31, 31, 30, 31, 30, 31>>

Abs(x) == IF x < 0 THEN 0 - x ELSE x

\* Series.abs().sum() of a column
RECURSIVE SumAbsCol(_, _)
SumAbsCol(rows, col) ==
    IF rows = <<>> THEN 0
    ELSE (IF Head(rows)[col] = NaN THEN 0 ELSE Abs(Head(rows)[col][1]))
         + SumAbsCol(Tail(rows), col)

\* df2.loc[mask] for the masks of the function
mask_m(df, m) == SelectSeq(df, LAMBDA r : r.Ay = Num(m))
mask_pos(df) == SelectSeq(df, LAMBDA r : r.Dengesizlik # NaN /\ r.Dengesizlik[1] > 0)
mask_neg(df) == SelectSeq(df, LAMBDA r : r.Dengesizlik # NaN /\ r.Dengesizlik[1] < 0)
mask_prod(df) == SelectSeq(df, LAMBDA r : r.URETIM # NaN /\ r.URETIM[1] > 0)

\* (x / y) * 100.0 if y > 0 else 0.0
pct_if_pos(x, y) == IF y > 0 THEN <<x, y, 100>> ELSE Num(0)

asym_ratio_mut(pos_dm, neg_dm) == IF neg_dm # 0 THEN <<pos_dm, neg_dm>> ELSE Num(0)

\* line 197: (pos_dm / neg_dm) if neg_dm != 0 else None
asym_ratio(pos_dm, neg_dm) == IF neg_dm # 0 THEN <<pos_dm, neg_dm>> ELSE NaN

\* Series.max() of KGUP: missing cells are skipped, NaN when none is left
max_kgup(g) ==
    LET vals == {g[i].KGUP[1] : i \in {k \in 1..Len(g) : g[k].KGUP # NaN}}
    IN  IF vals = {} THEN NaN ELSE Num(CHOOSE v \in vals : \A w \in vals : w <= v)

\* sort_values(ascending=False).head(k).sum() of the sums f of the days in S
RECURSIVE head_sum(_, _, _)
head_sum(f, S, k) ==
    IF k = 0 \/ S = {} THEN 0
    ELSE LET d == CHOOSE x \in S : \A y \in S : f[y] <= f[x]
         IN  f[d] + head_sum(f, S \ {d}, k - 1)

\* lines 206-211: groupby("Tarih") sums (a missing Tarih forms no group), the
\* five largest summed
top5(monthly) ==
    LET days == {monthly[i].Tarih : i \in 1..Len(monthly)} \ {NaN}
        daily_dm == [d \in days |->
                        SumCol(SelectSeq(monthly, LAMBDA r : r.Tarih = d),
                               "Dengesizlik_Maliyeti")]
    IN  head_sum(daily_dm, days, 5)

\* the eleven values of one month (the body of the loop, lines 187-228)
extras_of_month(df, m) ==
    LET g == mask_m(df, m)
        sum_kgup == SumCol(g, "KGUP")
        mx == IF g # <<>> THEN max_kgup(g) ELSE Num(0)
        potential == IF mx = NaN THEN NaN ELSE Num(mx[1] * 24 * days_2024[m])
        month_prod == SumCol(g, "URETIM")
        month_dm_total == SumCol(g, "Dengesizlik_Maliyeti")
        prod_h_m == Len(mask_prod(g))
    IN  [accuracy_pct |->
             IF sum_kgup > 0
             THEN <<sum_kgup - SumAbsCol(g, "Dengesizlik"), sum_kgup, 100>>
             ELSE Num(0),
         asym_ratio |-> asym_ratio(SumCol(mask_pos(g), "Dengesizlik_Maliyeti"),
                                   SumCol(mask_neg(g), "Dengesizlik_Maliyeti")),
         capacity_factor_pct |->
             IF potential # NaN /\ potential[1] > 0
             THEN <<month_prod, potential[1], 100>> ELSE Num(0),
         top5_dm_tl |-> IF g # <<>> THEN Num(top5(g)) ELSE Num(0),
         top5_dm_share_pct |->
             IF g # <<>> THEN pct_if_pos(top5(g), month_dm_total) ELSE Num(0),
         revenue_share_pct |-> pct_if_pos(SumCol(g, "Net_Gelir"), SumCol(df, "Net_Gelir")),
         pos_share_pct |-> pct_if_pos(SumCol(mask_pos(g), "Dengesizlik"),
                                      SumCol(mask_pos(df), "Dengesizlik")),
         neg_share_pct |-> pct_if_pos(SumAbsCol(mask_neg(g), "Dengesizlik"),
                                      SumAbsCol(mask_neg(df), "Dengesizlik")),
         prod_hours |-> Num(prod_h_m),
         prod_hours_share_pct |-> pct_if_pos(prod_h_m, Len(mask_prod(df))),
         prod_share_pct |-> pct_if_pos(month_prod, SumCol(df, "URETIM"))]

\* the names of the eleven lists, in the order the comparison sheet uses
extra_keys ==
    <<"accuracy_pct", "asym_ratio", "capacity_factor_pct", "top5_dm_tl",
      "top5_dm_share_pct", "revenue_share_pct", "pos_share_pct", "neg_share_pct",
      "prod_hours", "prod_hours_share_pct", "prod_share_pct">>

\* compute_monthly_extras: one list of 12 values per name
compute_monthly_extras(df) ==
    LET month == [m \in 1..12 |-> extras_of_month(df, m)]
    IN  [k \in {extra_keys[j] : j \in 1..Len(extra_keys)} |->
            [m \in 1..12 |-> month[m][k]]]

(***************************************************************************)
(* Inputs of the table specification: the records the four fetch          *)
(* operations received, as (date, hour) texts and a value.                 *)
(***************************************************************************)
MaxPlantRecs == 2
MaxPriceRecs == 1
MaxRecs == 4

Str_00_00 == <<"0", "0", ":", "0", "0">>
IsoTail == <<":", "0", "0", "+", "0", "3", ":", "0", "0">>
Iso_Jan01 ==
    <<"2", "0", "2", "4", "-", "0", "1", "-", "0", "1", "T">> \o Str_00_00 \o IsoTail
Iso_Feb01_05 ==
    <<"2", "0", "2", "4", "-", "0", "2", "-", "0", "1", "T", "0", "5", ":", "0", "0">>
        \o IsoTail
Iso_Feb30 ==
    <<"2", "0", "2", "4", "-", "0", "2", "-", "3", "0", "T">> \o Str_00_00 \o IsoTail

\* 2024-01-01 00:00 with an hour field, 2024-02-01 05:00 with the hour only
\* inside the date field, and a date that is not a calendar date
RawStamps ==
    {[date |-> Iso_Jan01, hour |-> Str_00_00],
     [date |-> Iso_Feb01_05, hour |-> NaN],
     [date |-> Iso_Feb30, hour |-> Str_00_00]}

\* the values of the spec's worked example
ExampleCase ==
    [PTF |-> Num(500), SMF |-> Num(520), KGUP |-> Num(100), URETIM |-> Num(120)]

\* the values of one run: every record of a series carries the series' value
ValueCases ==
    {ExampleCase,
     [PTF |-> Num(500), SMF |-> Num(520), KGUP |-> Num(100), URETIM |-> Num(80)],
     [PTF |-> Num(520), SMF |-> Num(500), KGUP |-> Num(100), URETIM |-> Num(80)],
     [PTF |-> Num(500), SMF |-> Num(520), KGUP |-> Num(100), URETIM |-> Num(0)],
     [PTF |-> Num(500), SMF |-> Num(520), KGUP |-> Num(0), URETIM |-> Num(0)],
     [PTF |-> Num(500), SMF |-> Num(520), KGUP |-> Num(100), URETIM |-> NaN],
     [PTF |-> Num(500), SMF |-> Num(520), KGUP |-> NaN, URETIM |-> Num(120)],
     [PTF |-> NaN, SMF |-> Num(520), KGUP |-> Num(100), URETIM |-> Num(120)],
     [PTF |-> Num(500), SMF |-> NaN, KGUP |-> Num(100), URETIM |-> Num(80)],
     [PTF |-> Num(0 - 10), SMF |-> Num(0 - 10), KGUP |-> Num(100), URETIM |-> Num(120)]}

\* the sequences of n records of value v
RawRows(n, v) ==
    {[i \in 1..n |-> [date |-> st[i].date, hour |-> st[i].hour, value |-> v]] :
        st \in [1..n -> RawStamps]}

\* how many records each of the four series has: up to MaxPlantRecs
\* generation-plan and realized-generation records and up to MaxPriceRecs
\* price and system-marginal-price records with the example's values, and up
\* to MaxRecs records in all with any of the values
LenTuples ==
    {<<a, b, c, d>> : a \in 0..MaxPlantRecs, b \in 0..MaxPlantRecs,
                      c \in 0..MaxPriceRecs, d \in 0..MaxPriceRecs}

InitTable ==
    /\ PartOff /\ FetchOff /\ PipeOff /\ ColOff /\ StampOff
    /\ \E vc \in ValueCases :
       \E n \in {t \in LenTuples :
                    vc = ExampleCase \/ t[1] + t[2] + t[3] + t[4] <= MaxRecs} :
          /\ kgup_df \in {kgup_table(rows) : rows \in RawRows(n[1], vc.KGUP)}
          /\ uretim_df \in {uretim_table(rows) : rows \in RawRows(n[2], vc.URETIM)}
          /\ ptf_df \in {ptf_table(rows) : rows \in RawRows(n[3], vc.PTF)}
          /\ smf_df \in {smf_table(rows) : rows \in RawRows(n[4], vc.SMF)}
    /\ pp1_df = <<>>
    /\ sum1 = <<>>
    /\ tbl_exc = "none"
    /\ tbl_pc = "fetched"

\* build_plant_dataframe returns its table (lines 169-210)
BuildReturn ==
    /\ tbl_pc = "fetched"
    /\ build_table(kgup_df, uretim_df, ptf_df, smf_df).raised = "none"
    /\ pp1_df' = build_table(kgup_df, uretim_df, ptf_df, smf_df).df
    /\ tbl_pc' = "built"
    /\ UNCHANGED <<partVars, fetchVars, pipeVars, colVars, stampVars, kgup_df, uretim_df, ptf_df, smf_df, sum1, tbl_exc>>

\* build_plant_dataframe raises
BuildRaise ==
    /\ tbl_pc = "fetched"
    /\ build_table(kgup_df, uretim_df, ptf_df, smf_df).raised # "none"
    /\ tbl_exc' = build_table(kgup_df, uretim_df, ptf_df, smf_df).raised
    /\ tbl_pc' = "raised"
    /\ UNCHANGED <<partVars, fetchVars, pipeVars, colVars, stampVars, kgup_df, uretim_df, ptf_df, smf_df, pp1_df, sum1>>

\* build_monthly_summary on a table that is not empty (streamlit_app.py
\* lines 341-345: an empty table stops the run before)
Summarise ==
    /\ tbl_pc = "built"
    /\ pp1_df # <<>>
    /\ sum1' = build_monthly_summary(pp1_df)
    /\ tbl_pc' = "summarised"
    /\ UNCHANGED <<partVars, fetchVars, pipeVars, colVars, stampVars, kgup_df, uretim_df, ptf_df, smf_df, pp1_df, tbl_exc>>

NextTable == BuildReturn \/ BuildRaise \/ Summarise

SpecTable == InitTable /\ [][NextTable]_vars

(***************************************************************************)
(* Inputs of the partitioning specification.                               *)
(***************************************************************************)
FirstYear == 2023
NumYears == 2
MaxSpanMonths == 3
Hours == {0, 12}

StartDates ==
    {dt \in {<<y, m, d, h, 0, 0>> : y \in FirstYear..(FirstYear + NumYears - 1),
                                    m \in 1..12, d \in 1..31, h \in Hours} :
        dt[3] <= DaysInMonth(dt[1], dt[2])}

\* the year and month k months after (y, m)
MonthPlus(y, m, k) == <<y + ((m - 1 + k) \div 12), ((m - 1 + k) % 12) + 1>>

\* ends: 0..MaxSpanMonths months after the start's month, on the first day,
\* the start's day of month or the last day, at any hour of Hours; some of
\* them are before the start
EndDates(s) ==
    {<<ym[1], ym[2], d, h, 0, 0>> :
        ym \in {MonthPlus(s[1], s[2], k) : k \in 0..MaxSpanMonths},
        d \in {1, 28, 29, 30, 31, s[3]}, h \in Hours}

EndDatesFor(s) ==
    {e \in EndDates(s) :
        /\ e[3] <= DaysInMonth(e[1], e[2])
        /\ e[3] \in {1, DaysInMonth(e[1], e[2]), s[3]}}

InitPart ==
    /\ start_dt \in StartDates
    /\ end_dt \in EndDatesFor(start_dt)
    /\ ranges = <<>>
    /\ part_pc = "call"
    /\ TblOff /\ FetchOff /\ PipeOff /\ ColOff /\ StampOff

\* the call returns the list (lines 27-44)
PartReturn ==
    /\ part_pc = "call"
    /\ month_start_end_strings(start_dt, end_dt).raised = "none"
    /\ ranges' = month_start_end_strings(start_dt, end_dt).ranges
    /\ part_pc' = "returned"
    /\ UNCHANGED <<start_dt, end_dt, tblVars, fetchVars, pipeVars, colVars, stampVars>>

\* the call raises ValueError (lines 25-26)
PartRaise ==
    /\ part_pc = "call"
    /\ month_start_end_strings(start_dt, end_dt).raised = "ValueError"
    /\ part_pc' = "ValueError"
    /\ UNCHANGED <<start_dt, end_dt, ranges, tblVars, fetchVars, pipeVars, colVars, stampVars>>

NextPart == PartReturn \/ PartRaise

SpecPart == InitPart /\ [][NextPart]_vars

(***************************************************************************)
(* The fetch operations: one request per sub-range through _post_json.     *)
(***************************************************************************)
TGT == <<"T", "G", "T", "-", "1">>

not_tgt_mut(t) == FALSE

\* "if not self.tgt" (line 76): None and the empty text are both false
not_tgt(t) == t = NaN

raise_for_status_mut(status) == "none"

\* resp.raise_for_status() (line 85)
raise_for_status(status) == IF status >= 400 THEN "HTTPError" ELSE "none"

\* the item lists a response carries: none, or one record of the series
ItemChoices(op) ==
    LET v == CASE op = "ptf" -> ExampleCase.PTF
               [] op = "smf" -> ExampleCase.SMF
               [] op = "kgup" -> ExampleCase.KGUP
               [] OTHER -> ExampleCase.URETIM
    IN  {<<>>, <<[date |-> Iso_Jan01, hour |-> Str_00_00, value |-> v]>>}

\* the table a fetch operation returns for its rows (lines 95-98, 107-110,
\* 130-134, 152-156)
fetch_table(op, rows) ==
    CASE op = "ptf" -> ptf_table(rows)
      [] op = "smf" -> smf_table(rows)
      [] op = "kgup" -> kgup_table(rows)
      [] OTHER -> uretim_table(rows)

\* entry of fetch_ptf / fetch_smf / fetch_kgup / fetch_uretim: the list of
\* sub-ranges is computed before the loop starts
CallFetch(op, plant) ==
    LET r == month_start_end_strings(start_dt, end_dt)
    IN  /\ f_op' = op
        /\ f_plant' = plant
        /\ f_i' = 0
        /\ f_rows' = <<>>
        /\ f_df' = <<>>
        /\ ranges' = r.ranges
        /\ f_exc' = r.raised
        /\ f_pc' = IF r.raised = "none" THEN "loop" ELSE "raised"
        /\ UNCHANGED <<start_dt, end_dt, part_pc, tgt, sent>>

\* one loop iteration: _post_json for the next sub-range, then the rows of
\* the response's items (lines 90-94 and 75-86)
PostJson ==
    /\ f_pc = "loop"
    /\ f_i < Len(ranges)
    /\ IF not_tgt(tgt)
       THEN /\ f_pc' = "raised"
            /\ f_exc' = "RuntimeError"
            /\ UNCHANGED <<sent, f_rows, f_i>>
       ELSE \E status \in {200, 500} : \E items \in ItemChoices(f_op) :
            /\ sent' = Append(sent, [url |-> f_op, plant |-> f_plant,
                                     startDate |-> ranges[f_i + 1][1],
                                     endDate |-> ranges[f_i + 1][2],
                                     status |-> status])
            /\ IF raise_for_status(status) # "none"
               THEN /\ f_pc' = "raised"
                    /\ f_exc' = raise_for_status(status)
                    /\ UNCHANGED <<f_rows, f_i>>
               ELSE /\ f_rows' = f_rows \o items
                    /\ f_i' = f_i + 1
                    /\ UNCHANGED <<f_pc, f_exc>>
    /\ UNCHANGED <<partVars, tblVars, pipeVars, colVars, stampVars, tgt, f_op, f_plant, f_df>>

\* the loop is over: the operation returns its table
FetchReturn ==
    /\ f_pc = "loop"
    /\ f_i = Len(ranges)
    /\ f_df' = fetch_table(f_op, f_rows)
    /\ f_pc' = "returned"
    /\ UNCHANGED <<partVars, tblVars, pipeVars, colVars, stampVars, tgt, f_op, f_plant, f_i, f_rows,
                   f_exc, sent>>

\* a fetch operation called directly, with any range and with or without token
FetchDates ==
    {<<2023, 12, 15, 0, 0, 0>>, <<2024, 1, 1, 0, 0, 0>>, <<2024, 1, 31, 12, 0, 0>>,
     <<2024, 2, 1, 0, 0, 0>>, <<2024, 3, 31, 0, 0, 0>>}

FetchOps == {<<"ptf", 0>>, <<"smf", 0>>, <<"kgup", 1>>, <<"kgup", 2>>,
             <<"uretim", 1>>, <<"uretim", 2>>}

InitFetch ==
    /\ start_dt \in FetchDates
    /\ end_dt \in FetchDates
    /\ ranges = <<>>
    /\ part_pc = "off"
    /\ TblOff /\ PipeOff /\ ColOff /\ StampOff
    /\ tgt \in {NaN, TGT}
    /\ \E o \in FetchOps : f_op = o[1] /\ f_plant = o[2]
    /\ f_i = 0 /\ f_rows = <<>> /\ f_df = <<>> /\ f_pc = "idle"
    /\ f_exc = "none" /\ sent = <<>>

DirectCall ==
    /\ pipe_pc = "off"
    /\ f_pc = "idle"
    /\ CallFetch(f_op, f_plant)
    /\ UNCHANGED <<tblVars, pipeVars, colVars, stampVars>>

NextFetch == DirectCall \/ PostJson \/ FetchReturn

SpecFetch == InitFetch /\ [][NextFetch]_vars

(***************************************************************************)
(* _build_datetime called on one record (epias_client.py lines 212-226).   *)
(***************************************************************************)
\* the date fields: a day text, or something else, followed by a tail
DayTexts ==
    {<<"2", "0", "2", "4", "-", "0", "3", "-", "0", "5">>, <<"2", "0", "2", "4", "-", "0", "2", "-", "3", "0">>, <<"0", "5", ".", "0", "3", ".", "2", "0", "2", "4">>}

DateTails ==
    {<<>>, <<"T", "0", "9", ":", "1", "5", ":", "0", "0", "+", "0", "3", ":", "0", "0">>, <<"T", "9", ":", "1", "5", ":", "0", "0">>, <<" ", "0", "9", ":", "1", "5">>,
     <<"T", "x", "T", "1", "0", ":", "4", "5", ":", "0", "0">>}

DateFields == {d \o t : d \in DayTexts, t \in DateTails}

\* the hour fields: None, or a text
HourFields ==
    {NaN, <<"1", "4", ":", "3", "0", ":", "0", "0">>, <<"1", "4", ":", "3", "0">>, <<"9", ":", "1", "5">>, <<"0", "0", ":", "0", "0">>,
     <<"2", "4", ":", "6", "1">>, <<"1", "4", "3", "0">>, <<" ", "1", "4", ":", "3", "0">>}

InitStamp ==
    /\ PartOff /\ TblOff /\ FetchOff /\ PipeOff /\ ColOff
    /\ bd_date \in DateFields
    /\ bd_hour \in HourFields
    /\ bd_out = NaN
    /\ bd_pc = "call"

\* _build_datetime on a table of this one record
BuildDatetime ==
    /\ bd_pc = "call"
    /\ bd_out' = build_datetime(bd_date, bd_hour)
    /\ bd_pc' = "returned"
    /\ UNCHANGED <<partVars, tblVars, fetchVars, pipeVars, colVars, bd_date, bd_hour>>

NextStamp == BuildDatetime

SpecStamp == InitStamp /\ [][NextStamp]_vars

(***************************************************************************)
(* _col_letter (streamlit_app.py lines 137-146).                           *)
(***************************************************************************)
Alphabet ==
    <<"A", "B", "C", "D", "E", "F", "G", "H", "I", "J", "K", "L", "M",
      "N", "O", "P", "Q", "R", "S", "T", "U", "V", "W", "X", "Y", "Z">>

\* chr(65 + rem)
chr65(rem) == Alphabet[rem + 1]

ColIter_mut(i, l) ==
    [idx |-> i \div 26,
     letters |-> <<chr65(i % 26)>> \o l,
     break |-> (i \div 26) = 0]

\* one pass of the "while True" body (lines 141-145): divmod, prepend the
\* letter, break on idx == 0, else idx -= 1
ColIter(i, l) ==
    LET q == i \div 26
        rem == i % 26
    IN  [idx |-> IF q = 0 THEN q ELSE q - 1,
         letters |-> <<chr65(rem)>> \o l,
         break |-> q = 0]

RECURSIVE ColLoop(_, _)
ColLoop(i, l) ==
    LET r == ColIter(i, l)
    IN  IF r.break THEN r.letters ELSE ColLoop(r.idx, r.letters)

\* _col_letter(idx_zero_based)
col_letter(i) == ColLoop(i, <<>>)

MaxIdx == 730

InitCol ==
    /\ PartOff /\ TblOff /\ FetchOff /\ PipeOff /\ StampOff
    /\ idx_zero_based \in 0..MaxIdx
    /\ idx = idx_zero_based
    /\ letters = <<>>
    /\ col_pc = "loop"

\* a pass of the loop that does not break
ColStep ==
    /\ col_pc = "loop"
    /\ ~ColIter(idx, letters).break
    /\ idx' = ColIter(idx, letters).idx
    /\ letters' = ColIter(idx, letters).letters
    /\ UNCHANGED <<partVars, tblVars, fetchVars, pipeVars, stampVars,
                   idx_zero_based, col_pc>>

\* the pass that breaks, and the return
ColReturn ==
    /\ col_pc = "loop"
    /\ ColIter(idx, letters).break
    /\ idx' = ColIter(idx, letters).idx
    /\ letters' = ColIter(idx, letters).letters
    /\ col_pc' = "returned"
    /\ UNCHANGED <<partVars, tblVars, fetchVars, pipeVars, stampVars,
                   idx_zero_based>>

NextCol == ColStep \/ ColReturn

\* the loop is sequential code: a pass that can run does run
SpecCol == InitCol /\ [][NextCol]_vars /\ WF_vars(NextCol)

(***************************************************************************)
(* The workbook (streamlit_app.py lines 351-567).  Texts with Turkish      *)
(* letters are written with their ASCII letters.  A cell is a record with  *)
(* a tag t: "empty" (never written), "blank", "number", "string" or        *)
(* "formula"; a formula is kept as its parts, a cell reference as          *)
(* <<column letters, row number>>.                                         *)
(***************************************************************************)
\* rename_to_turkish (lines 113-134): the columns in sheet order, each with
\* the column of the hourly table it renames
turkish_order ==
    <<<<"Tarih", "Tarih">>, <<"Ay", "Ay">>, <<"Saat", "Saat">>,
      <<"PTF", "PTF">>, <<"SMF", "SMF">>,
      <<"Pozitif Dengesizlik Fiyati", "Poz_DF">>,
      <<"Negatif Dengesizlik Fiyati", "Neg_DF">>,
      <<"Gun Oncesi Uretim Tahmini (KGUP)", "KGUP">>,
      <<"Gerceklesen Uretim", "URETIM">>,
      <<"Dengesizlik Miktari", "Dengesizlik">>,
      <<"GOP Geliri", "GOP_Geliri">>,
      <<"Dengesizlik Tutari", "Dengesizlik_Tutari">>,
      <<"Toplam (Net) Gelir", "Net_Gelir">>,
      <<"Dengesizlik Maliyeti", "Dengesizlik_Maliyeti">>,
      <<"Birim Dengesizlik Maliyeti", "Birim_DM">>>>

\* list(pp1_t.columns) of line 401
headers == [j \in 1..Len(turkish_order) |-> turkish_order[j][1]]

rename_to_turkish(df) ==
    [i \in 1..Len(df) |->
        [n \in {headers[j] : j \in 1..Len(headers)} |->
            df[i][turkish_order[CHOOSE j \in 1..Len(headers) : headers[j] = n][2]]]]

\* to_excel(index=False): the header row, then one row per table row
to_excel(df_t) == [header |-> headers, data |-> df_t]

\* col_map of line 402
col_map(name) == col_letter((CHOOSE j \in 1..Len(headers) : headers[j] = name) - 1)

sumif_mut(sheet, col_name, month_cell_ref, last_row) ==
    [t |-> "formula", op |-> "SUMIF", sheet |-> sheet,
     range |-> <<col_map("Ay"), 2, last_row - 1>>,
     criterion |-> month_cell_ref,
     sum_range |-> <<col_map(col_name), 2, last_row - 1>>]

\* sumif of lines 409-411 for a sheet whose last row is last_row
sumif(sheet, col_name, month_cell_ref, last_row) ==
    [t |-> "formula", op |-> "SUMIF", sheet |-> sheet,
     range |-> <<col_map("Ay"), 2, last_row>>,
     criterion |-> month_cell_ref,
     sum_range |-> <<col_map(col_name), 2, last_row>>]

\* =IF(X=0,0,Y/X)
if_zero(x, y) == [t |-> "formula", op |-> "IF0", test |-> x, num |-> y, den |-> x]

sum_rows_mut(col, first, last) ==
    [t |-> "formula", op |-> "SUM", col |-> col, first |-> first + 1, last |-> last]

\* =SUM(first:last) over rows of one column
sum_rows(col, first, last) ==
    [t |-> "formula", op |-> "SUM", col |-> col, first |-> first, last |-> last]

\* worksheet.write(row, col, value): None and "" write a blank cell
write(value) == IF value = NaN THEN [t |-> "blank"] ELSE [t |-> "number", v |-> value]

write_string(str) == [t |-> "string", s |-> str]

\* base_headers and extra_headers of lines 413-437
base_headers ==
    <<"Ay", "Gerceklesen Uretim  (MWh)", "Dengesizlik Miktari  (MWh)",
      "GOP Geliri (TL)", "Dengesizlik Tutari (TL)", "Toplam Gelir (TL)",
      "Birim Gelir (TL/MWh)", "Dengesizlik Maliyeti (TL)",
      "Birim Deng Mal. (TL/MWh)">>

extra_headers ==
    <<"Tahmin Dogrulugu (%)", "Maliyet Asimetrisi (Poz/Neg)",
      "Kapasite Faktoru (%)", "En Maliyetli 5 Gun (TL)", "Top 5 Gun DM Payi (%)",
      "Gelir Payi (%)", "Yillik Pozitif Deng. Payi (%)",
      "Yillik Negatif Deng. Payi (%)", "Uretim Saati (saat)",
      "Uretim Saat Payi (%)", "Uretim Payi (%)">>

headers_comp == base_headers \o extra_headers

\* the detail-sheet column each SUMIF column of a month row sums (lines
\* 476-483): comparison-sheet column index |-> detail-sheet column
sumif_cols ==
    [j \in {1, 2, 3, 4, 5, 7} |->
        CASE j = 1 -> "Gerceklesen Uretim"
          [] j = 2 -> "Dengesizlik Miktari"
          [] j = 3 -> "GOP Geliri"
          [] j = 4 -> "Dengesizlik Tutari"
          [] j = 5 -> "Toplam (Net) Gelir"
          [] OTHER -> "Dengesizlik Maliyeti"]

\* the cell of a block at row rel of the block and column c, both counted
\* from 0: start is the block's title row (0 for Santral 1, start2 = 18 for
\* Santral 2), sheet its detail sheet, last_row that sheet's last row and
\* extras the plant's compute_monthly_extras result (lines 439-517, 519-567)
block_cell(start, title, sheet, last_row, extras, rel, c) ==
    LET row == start + rel
        i == rel - 3
        base_idx == Len(base_headers)
    IN  CASE rel = 0 /\ c = 0 -> write_string(title)
          [] rel = 2 -> write_string(headers_comp[c + 1])
          [] rel \in 3..14 /\ c = 0 -> write(Num(i + 1))
          [] rel \in 3..14 /\ c \in DOMAIN sumif_cols ->
                sumif(sheet, sumif_cols[c], <<<<"A">>, row + 1>>, last_row)
          [] rel \in 3..14 /\ c = 6 -> if_zero(<<<<"B">>, row + 1>>, <<<<"F">>, row + 1>>)
          [] rel \in 3..14 /\ c = 8 -> if_zero(<<<<"B">>, row + 1>>, <<<<"H">>, row + 1>>)
          [] rel \in 3..14 /\ c >= base_idx ->
                write(extras[extra_keys[c - base_idx + 1]][i + 1])
          [] rel = 15 /\ c = 0 -> write_string("Toplam")
          [] rel = 15 /\ c \in DOMAIN sumif_cols ->
                sum_rows(col_letter(c), start + 4, start + 15)
          [] rel = 15 /\ c = 6 -> if_zero(<<<<"B">>, row + 1>>, <<<<"F">>, row + 1>>)
          [] rel = 15 /\ c = 8 -> if_zero(<<<<"B">>, row + 1>>, <<<<"H">>, row + 1>>)
          [] rel = 15 /\ c \in {base_idx + 3, base_idx + 8} ->
                sum_rows(col_letter(c), start + 4, start + 15)
          [] OTHER -> [t |-> "empty"]

\* total_row_1 of line 499, start2 of line 518, total_row_2 of line 550
total_row_1 == 3 + 12
start2 == total_row_1 + 3
total_row_2 == start2 + 3 + 12

\* the comparison sheet: the cell of every (row, column), both from 0
comparison_sheet(pp1_t, pp2_t, extras1, extras2) ==
    [rc \in (0..total_row_2) \X (0..(Len(headers_comp) - 1)) |->
        IF rc[1] < start2
        THEN block_cell(0, "Santral 1", "Santral_1", Len(pp1_t) + 1, extras1,
                        rc[1], rc[2])
        ELSE block_cell(start2, "Santral 2", "Santral_2", Len(pp2_t) + 1, extras2,
                        rc[1] - start2, rc[2])]

\* the workbook of lines 353-567
write_excel(pp1, pp2, extras1, extras2) ==
    [Santral_1 |-> to_excel(rename_to_turkish(pp1)),
     Santral_2 |-> to_excel(rename_to_turkish(pp2)),
     Karsilastirma |-> comparison_sheet(rename_to_turkish(pp1),
                                        rename_to_turkish(pp2), extras1, extras2)]

(***************************************************************************)
(* The run_btn handler (streamlit_app.py lines 330-580).                   *)
(***************************************************************************)
MaxPipeMonths == 2

\* start_date and end_date of the form, at midnight (lines 312-316, 333-334)
PipeDates ==
    {dt \in {<<2024, m, d, 0, 0, 0>> : m \in 1..MaxPipeMonths, d \in {1, 15, 31}} :
        dt[3] <= DaysInMonth(dt[1], dt[2])}

FetchStages ==
    {"fetch_ptf", "fetch_smf", "pp1_kgup", "pp1_uretim", "pp2_kgup", "pp2_uretim"}

\* the operation and plant a stage calls
StageOp(pc) ==
    CASE pc = "fetch_ptf" -> <<"ptf", 0>>
      [] pc = "fetch_smf" -> <<"smf", 0>>
      [] pc = "pp1_kgup" -> <<"kgup", 1>>
      [] pc = "pp1_uretim" -> <<"uretim", 1>>
      [] pc = "pp2_kgup" -> <<"kgup", 2>>
      [] OTHER -> <<"uretim", 2>>

\* the statement after a fetch stage
StageAfter(pc) ==
    CASE pc = "fetch_ptf" -> "fetch_smf"
      [] pc = "fetch_smf" -> "pp1_kgup"
      [] pc = "pp1_kgup" -> "pp1_uretim"
      [] pc = "pp1_uretim" -> "pp1_join"
      [] pc = "pp2_kgup" -> "pp2_uretim"
      [] OTHER -> "pp2_join"

InitPipe ==
    /\ start_dt \in PipeDates
    /\ end_dt \in {e \in PipeDates : DtLE(start_dt, e)}
    /\ ranges = <<>>
    /\ part_pc = "off"
    /\ TblOff
    /\ tgt = TGT
    /\ f_op = "none" /\ f_plant = 0 /\ f_i = 0 /\ f_rows = <<>> /\ f_df = <<>>
    /\ f_pc = "idle" /\ f_exc = "none" /\ sent = <<>>
    /\ pipe_pc = "fetch_ptf" /\ pp2_df = <<>> /\ sum2 = <<>>
    /\ pp1_extras = NaN /\ pp2_extras = NaN /\ xlsx = NaN
    /\ ColOff /\ StampOff

\* the handler calls the fetch operation of its stage (lines 335, 336, 167, 168)
PipeCallFetch ==
    /\ pipe_pc \in FetchStages
    /\ f_pc = "idle"
    /\ CallFetch(StageOp(pipe_pc)[1], StageOp(pipe_pc)[2])
    /\ UNCHANGED <<tblVars, pipeVars, colVars, stampVars>>

\* the fetch operation returned: its table is bound and the handler goes on
PipeTake ==
    /\ pipe_pc \in FetchStages
    /\ f_pc = "returned"
    /\ ptf_df' = IF pipe_pc = "fetch_ptf" THEN f_df ELSE ptf_df
    /\ smf_df' = IF pipe_pc = "fetch_smf" THEN f_df ELSE smf_df
    /\ kgup_df' = IF f_op = "kgup" THEN f_df ELSE kgup_df
    /\ uretim_df' = IF f_op = "uretim" THEN f_df ELSE uretim_df
    /\ pipe_pc' = StageAfter(pipe_pc)
    /\ f_pc' = "idle"
    /\ UNCHANGED <<partVars, colVars, stampVars, pp1_df, sum1, tbl_exc, tbl_pc, pp2_df, sum2, pp1_extras, pp2_extras, xlsx,
                   tgt, f_op, f_plant, f_i, f_rows, f_df, f_exc, sent>>

\* build_plant_dataframe after its two fetches (lines 169-210); the second
\* call starts with fresh local tables
PipeJoin ==
    /\ pipe_pc \in {"pp1_join", "pp2_join"}
    /\ LET r == build_table(kgup_df, uretim_df, ptf_df, smf_df)
       IN  IF r.raised # "none"
           THEN /\ tbl_exc' = r.raised
                /\ pipe_pc' = "error"
                /\ UNCHANGED <<pp1_df, pp2_df, kgup_df, uretim_df>>
           ELSE /\ pp1_df' = IF pipe_pc = "pp1_join" THEN r.df ELSE pp1_df
                /\ pp2_df' = IF pipe_pc = "pp2_join" THEN r.df ELSE pp2_df
                /\ pipe_pc' = IF pipe_pc = "pp1_join" THEN "pp2_kgup" ELSE "check"
                /\ kgup_df' = <<>>
                /\ uretim_df' = <<>>
                /\ UNCHANGED tbl_exc
    /\ UNCHANGED <<partVars, colVars, stampVars, fetchVars, ptf_df, smf_df, sum1, tbl_pc, sum2, pp1_extras, pp2_extras, xlsx>>

\* an exception of a fetch operation reaches "except Exception" (lines 577-578)
PipeExcept ==
    /\ pipe_pc \in FetchStages
    /\ f_pc = "raised"
    /\ pipe_pc' = "error"
    /\ UNCHANGED <<partVars, colVars, stampVars, tblVars, fetchVars, pp2_df, sum2, pp1_extras, pp2_extras, xlsx>>

\* lines 341-343: an empty plant table stops the run
PipeCheck ==
    /\ pipe_pc = "check"
    /\ pipe_pc' = IF pp1_df = <<>> \/ pp2_df = <<>> THEN "stopped" ELSE "report"
    /\ UNCHANGED <<partVars, colVars, stampVars, tblVars, fetchVars, pp2_df, sum2, pp1_extras, pp2_extras, xlsx>>

\* lines 345-576: the summaries, the workbook and the download button
PipeReport ==
    /\ pipe_pc = "report"
    /\ sum1' = build_monthly_summary(pp1_df)
    /\ sum2' = build_monthly_summary(pp2_df)
    /\ pp1_extras' = compute_monthly_extras(pp1_df)
    /\ pp2_extras' = compute_monthly_extras(pp2_df)
    /\ xlsx' = write_excel(pp1_df, pp2_df, pp1_extras', pp2_extras')
    /\ pipe_pc' = "done"
    /\ UNCHANGED <<partVars, colVars, stampVars, fetchVars, kgup_df, uretim_df, ptf_df, smf_df,
                   pp1_df, tbl_exc, tbl_pc, pp2_df>>

NextPipe ==
    \/ PipeCallFetch \/ PostJson \/ FetchReturn \/ PipeTake \/ PipeJoin
    \/ PipeExcept \/ PipeCheck \/ PipeReport

SpecPipe == InitPipe /\ [][NextPipe]_vars

(***************************************************************************)
(* The handler from line 341 on, given the two hourly tables: the empty    *)
(* check, the summaries, the extras and the workbook.                      *)
(***************************************************************************)
MaxReportRecs == 2

\* the generation-plan records of a plant: one per timestamp text
ReportKgup ==
    <<[date |-> Iso_Jan01, hour |-> Str_00_00, value |-> Num(100)],
      [date |-> Iso_Feb01_05, hour |-> NaN, value |-> Num(100)],
      [date |-> Iso_Feb30, hour |-> Str_00_00, value |-> Num(100)]>>

\* the price and system-marginal-price records
ReportPtf ==
    <<[date |-> Iso_Jan01, hour |-> Str_00_00, value |-> Num(500)],
      [date |-> Iso_Feb01_05, hour |-> NaN, value |-> Num(500)]>>

ReportSmf ==
    <<[date |-> Iso_Jan01, hour |-> Str_00_00, value |-> Num(520)],
      [date |-> Iso_Feb01_05, hour |-> NaN, value |-> Num(520)]>>

\* a realized-generation record: any of the timestamp texts, over-generation,
\* under-generation, no generation or a missing value
ReportUretimRecs ==
    {[date |-> st.date, hour |-> st.hour, value |-> v] :
        st \in RawStamps, v \in {Num(120), Num(80), Num(0), NaN}}

\* the hourly tables build_plant_dataframe returns for up to n
\* realized-generation records out of recs
ReportTables(recs, n) ==
    {build_table(kgup_table(ReportKgup), uretim_table(u),
                 ptf_table(ReportPtf), smf_table(ReportSmf)).df :
        u \in UNION {[1..k -> recs] : k \in 0..n}}

\* plant 1 has up to MaxReportRecs records of any kind, plant 2 at most one
\* record, of over-generation
InitReport ==
    /\ PartOff /\ FetchOff /\ ColOff /\ StampOff
    /\ kgup_df = <<>> /\ uretim_df = <<>> /\ ptf_df = <<>> /\ smf_df = <<>>
    /\ sum1 = <<>> /\ tbl_exc = "none" /\ tbl_pc = "off"
    /\ pp1_df \in ReportTables(ReportUretimRecs, MaxReportRecs)
    /\ pp2_df \in ReportTables({r \in ReportUretimRecs : r.value = Num(120)}, 1)
    /\ sum2 = <<>> /\ pp1_extras = NaN /\ pp2_extras = NaN /\ xlsx = NaN
    /\ pipe_pc = "check"

NextReport == PipeCheck \/ PipeReport

SpecReport == InitReport /\ [][NextReport]_vars

(***************************************************************************)
(* Reading a period back: the timestamp an emitted string denotes.         *)
(***************************************************************************)
StampOf(str) == <<str[1], str[2], str[3], str[4], str[5], str[6]>>
PStart(i) == StampOf(ranges[i][1])
PEnd(i) == StampOf(ranges[i][2])
DateOf(dt) == <<dt[1], dt[2], dt[3]>>
NextDate(d) ==
    IF d[3] < DaysInMonth(d[1], d[2]) THEN <<d[1], d[2], d[3] + 1>>
    ELSE IF d[2] < 12 THEN <<d[1], d[2] + 1, 1>> ELSE <<d[1] + 1, 1, 1>>

\* C1: for start <= end at any time of day the periods are ordered, do not
\* overlap and cover [start, end]: every period's start is not after its
\* end, every period ends before the next starts, the first starts at start,
\* the last ends at end, and consecutive periods leave no gap (a period that
\* ends on a day is followed by one that starts no later than the next day).
C1_PartitionCovers ==
    part_pc = "returned" =>
        /\ Len(ranges) >= 1
        /\ \A i \in 1..Len(ranges) : DtLE(PStart(i), PEnd(i))
        /\ \A i \in 1..(Len(ranges) - 1) :
              /\ DtLT(PEnd(i), PStart(i + 1))
              /\ DateOf(PStart(i + 1)) \in {DateOf(PEnd(i)), NextDate(DateOf(PEnd(i)))}
        /\ PStart(1) = start_dt
        /\ PEnd(Len(ranges)) = end_dt

\* number of calendar months overlapped by [s, e]
MonthsOverlapped(s, e) == (e[1] * 12 + e[2]) - (s[1] * 12 + s[2]) + 1

\* C2: one period per calendar month overlapped by [start, end], the i-th
\* period lying with both endpoints in the i-th of those months; a single-day
\* range gives one period and three full months give three periods.
C2_OnePeriodPerMonth ==
    part_pc = "returned" =>
        /\ Len(ranges) = MonthsOverlapped(start_dt, end_dt)
        /\ \A i \in 1..Len(ranges) :
              LET ym == MonthPlus(start_dt[1], start_dt[2], i - 1)
              IN  /\ <<PStart(i)[1], PStart(i)[2]>> = ym
                  /\ <<PEnd(i)[1], PEnd(i)[2]>> = ym
        /\ DateOf(start_dt) = DateOf(end_dt) => Len(ranges) = 1
        /\ ( /\ start_dt[3] = 1
             /\ <<end_dt[1], end_dt[2]>> = MonthPlus(start_dt[1], start_dt[2], 2)
             /\ end_dt[3] = DaysInMonth(end_dt[1], end_dt[2]) ) => Len(ranges) = 3

\* three full months across a December/January boundary, partitioned
C2_Witness ==
    /\ part_pc = "returned"
    /\ start_dt = <<2023, 11, 1, 0, 0, 0>>
    /\ end_dt = <<2024, 1, 31, 0, 0, 0>>
    /\ Len(ranges) = 3

(***************************************************************************)
(* Claims about the fetch operations and the handler.                      *)
(***************************************************************************)
FetchOver == f_pc \in {"returned", "raised"}

\* a request is sent only with end >= start and a token; a call past the
\* range check has end >= start, and one past a request has a token
C3_RequestsGuarded ==
    /\ sent # <<>> => (DtLE(start_dt, end_dt) /\ tgt # NaN)
    /\ f_pc \in {"loop", "returned"} => DtLE(start_dt, end_dt)
    /\ (f_i > 0 \/ f_pc = "returned") => tgt # NaN

\* a finished call with end < start raised the invalid-range error, sent
\* nothing and returned no table
C3_InvalidRange ==
    (FetchOver /\ DtLT(end_dt, start_dt)) =>
        (f_pc = "raised" /\ f_exc = "ValueError" /\ sent = <<>> /\ f_df = <<>>)

\* C3 as stated: in each fetch operation a request is sent only if
\* end >= start and a token is set; with end < start the call fails with the
\* invalid-range error (ValueError) and with no token it fails with the
\* authentication error (RuntimeError), in both cases before any request
\* and without a table.
C3_Original ==
    /\ C3_RequestsGuarded
    /\ C3_InvalidRange
    /\ (FetchOver /\ tgt = NaN) =>
          (f_pc = "raised" /\ f_exc = "RuntimeError" /\ sent = <<>> /\ f_df = <<>>)

\* C3 amended: the range is checked before the token, so the authentication
\* error is the outcome of a call without token whose range is valid; a call
\* without token and with end < start fails with the invalid-range error.
\* Every call without token fails before any request and returns no table.
C3_FetchGuards ==
    /\ C3_RequestsGuarded
    /\ C3_InvalidRange
    /\ (FetchOver /\ tgt = NaN /\ DtLE(start_dt, end_dt)) =>
          (f_pc = "raised" /\ f_exc = "RuntimeError" /\ sent = <<>> /\ f_df = <<>>)
    /\ (FetchOver /\ tgt = NaN) =>
          (f_pc = "raised" /\ f_exc \in {"ValueError", "RuntimeError"}
           /\ sent = <<>> /\ f_df = <<>>)

\* fetch_kgup called without a token on a valid range has raised the
\* authentication error with nothing sent
C3_Witness ==
    /\ f_op = "kgup"
    /\ tgt = NaN
    /\ DtLT(start_dt, end_dt)
    /\ f_pc = "raised"
    /\ f_exc = "RuntimeError"
    /\ sent = <<>>

\* C4: once a sub-range request of a run has not succeeded, it is the last
\* request of the run (no retry, no later sub-range, no later series), the
\* fetch operation has raised and returned no table (the rows of the earlier
\* sub-ranges are bound to nothing), the handler is on its way to or at its
\* error branch, and no summary and no spreadsheet exists.
C4_FailedRequestAborts ==
    \A i \in 1..Len(sent) :
        sent[i].status # 200 =>
            /\ i = Len(sent)
            /\ f_pc = "raised" /\ f_exc = "HTTPError" /\ f_df = <<>>
            /\ pipe_pc \in FetchStages \cup {"error"}
            /\ pipe_pc \in FetchStages =>
                  (StageOp(pipe_pc) = <<sent[i].url, sent[i].plant>>)
            /\ sent[i].url = "ptf" => ptf_df = <<>>
            /\ sent[i].url = "smf" => smf_df = <<>>
            /\ sent[i].url = "kgup" => kgup_df = <<>>
            /\ sent[i].url = "uretim" => uretim_df = <<>>
            /\ sent[i].plant = 1 => pp1_df = <<>>
            /\ pp2_df = <<>> /\ sum1 = <<>> /\ sum2 = <<>> /\ xlsx = NaN

\* the second sub-range request of plant 2's realized generation failed after
\* the first had brought a row, and the handler is in its error branch
C4_Witness ==
    /\ pipe_pc = "error"
    /\ f_exc = "HTTPError"
    /\ f_op = "uretim" /\ f_plant = 2
    /\ f_i = 1 /\ f_rows # <<>>
    /\ pp1_df # <<>>
    /\ xlsx = NaN

\* the run is over
Terminal == pipe_pc \in {"error", "stopped", "done"}

\* every request sent so far succeeded
AllOk == \A i \in 1..Len(sent) : sent[i].status = 200

\* C13: when the generation-plan or the realized-generation stream of either
\* plant is empty, build_plant_dataframe returns an empty table without
\* raising (a build that raised had both its plant streams non-empty), no
\* summary, no extras and no spreadsheet exist while a plant table is empty,
\* and the run ends stopped as insufficient data: a run whose requests all
\* succeeded, that fetched both plants and did not end stopped, had no empty
\* plant stream.
C13_EmptyStops ==
    /\ tbl_exc # "none" => (kgup_df # <<>> /\ uretim_df # <<>>)
    /\ (pp1_df = <<>> \/ pp2_df = <<>>) =>
          /\ pipe_pc \notin {"report", "done"}
          /\ sum1 = <<>> /\ sum2 = <<>>
          /\ pp1_extras = NaN /\ pp2_extras = NaN /\ xlsx = NaN
    /\ (Terminal /\ AllOk /\ f_plant = 2 /\ pipe_pc # "stopped") =>
          (pp1_df # <<>> /\ (pp2_df # <<>> \/ (kgup_df # <<>> /\ uretim_df # <<>>)))

\* the six request groups of a run, in the order the claim gives
RequestGroups ==
    <<<<"ptf", 0>>, <<"smf", 0>>, <<"kgup", 1>>, <<"uretim", 1>>,
      <<"kgup", 2>>, <<"uretim", 2>>>>

\* C14: in a run in which every request succeeds, the requests are N price
\* requests, then N system-marginal-price requests, then plant 1's N
\* generation-plan and N realized-generation requests, then plant 2's N
\* generation-plan and N realized-generation requests, each group in period
\* order, N the number of periods of the range: 6 * N requests, price and
\* system-marginal-price requested once per period.
C14_RequestSequence ==
    (Terminal /\ AllOk) =>
        LET R == month_start_end_strings(start_dt, end_dt).ranges
            N == Len(R)
        IN  /\ Len(sent) = 6 * N
            /\ \A g \in 1..6 : \A k \in 1..N :
                  LET q == sent[(g - 1) * N + k]
                  IN  /\ q.url = RequestGroups[g][1]
                      /\ q.plant = RequestGroups[g][2]
                      /\ q.startDate = R[k][1]
                      /\ q.endDate = R[k][2]

(***************************************************************************)
(* Reading the tables.                                                     *)
(***************************************************************************)
\* the timestamps that occur in a fetched table
StampsIn(df) == {df[i].datetime : i \in 1..Len(df)} \ {NaN}

\* the timestamp of a row of the hourly table, from its Tarih and Saat
RowStamp(r) == to_datetime(r.Tarih, r.Saat)

RowsAt(t) == {i \in 1..Len(pp1_df) : RowStamp(pp1_df[i]) = t}

InBoth == StampsIn(kgup_df) \cap StampsIn(uretim_df)

\* C5: the hourly table has exactly one row for every timestamp that occurs
\* in both the generation-plan table and the realized-generation table, and no
\* row for any other timestamp, whatever the four tables contain.
C5_OneRowPerCommonStamp ==
    tbl_pc = "built" =>
        \A t \in (StampsIn(kgup_df) \cup StampsIn(uretim_df)
                  \cup {RowStamp(pp1_df[i]) : i \in 1..Len(pp1_df)}) \ {NaN} :
            Cardinality(RowsAt(t)) = IF t \in InBoth THEN 1 ELSE 0

\* C6: an hour in both the generation-plan and realized-generation tables is
\* kept when the price table or the system-marginal-price table has no record
\* for it, also when that table is empty: build_plant_dataframe does not fail
\* and the hour's PTF (SMF) is missing, not zero.
C6_KeptWithoutPrice ==
    tbl_pc \in {"built", "raised"} =>
        \A t \in InBoth :
            (t \notin StampsIn(ptf_df) \/ t \notin StampsIn(smf_df)) =>
                /\ tbl_pc = "built"
                /\ RowsAt(t) # {}
                /\ \A i \in RowsAt(t) :
                      /\ t \notin StampsIn(ptf_df) => pp1_df[i].PTF = NaN
                      /\ t \notin StampsIn(smf_df) => pp1_df[i].SMF = NaN

Known(r) == r.PTF # NaN /\ r.SMF # NaN /\ r.KGUP # NaN /\ r.URETIM # NaN

IntMin(a, b) == IF a <= b THEN a ELSE b
IntMax(a, b) == IF a >= b THEN a ELSE b

\* C7: on every row whose PTF, SMF, KGUP and URETIM are known the derived
\* columns are the reference formulas (money in hundredths): Poz_DF =
\* min(PTF,SMF)*0.97, Neg_DF = max(PTF,SMF)*1.03, Dengesizlik = URETIM-KGUP,
\* GOP_Geliri = KGUP*PTF, Dengesizlik_Tutari = Dengesizlik*Poz_DF if
\* Dengesizlik >= 0 else Dengesizlik*Neg_DF, Net_Gelir = GOP_Geliri +
\* Dengesizlik_Tutari, Dengesizlik_Maliyeti = max(0, URETIM*PTF - Net_Gelir),
\* never negative; PTF=500, SMF=520, KGUP=100, URETIM=120 give 485.00, 535.60,
\* 20, 50000.00, 9700.00, 59700.00 and 300.00.
C7_ReferenceFormulas ==
    tbl_pc = "built" =>
        \A i \in 1..Len(pp1_df) :
            LET r == pp1_df[i] IN
            Known(r) =>
                LET p == r.PTF[1]
                    q == r.SMF[1]
                    k == r.KGUP[1]
                    u == r.URETIM[1]
                    poz == IntMin(p, q) * 97
                    neg == IntMax(p, q) * 103
                    tutar == IF u - k >= 0 THEN (u - k) * poz ELSE (u - k) * neg
                    net == k * p * 100 + tutar
                IN  /\ r.Poz_DF = <<poz>>
                    /\ r.Neg_DF = <<neg>>
                    /\ r.Dengesizlik = <<u - k>>
                    /\ r.GOP_Geliri = <<k * p * 100>>
                    /\ r.Dengesizlik_Tutari = <<tutar>>
                    /\ r.Net_Gelir = <<net>>
                    /\ r.Dengesizlik_Maliyeti = <<IntMax(0, u * p * 100 - net)>>
                    /\ r.Dengesizlik_Maliyeti[1] >= 0
                    /\ (p = 500 /\ q = 520 /\ k = 100 /\ u = 120) =>
                          /\ r.Poz_DF = <<48500>> /\ r.Neg_DF = <<53560>>
                          /\ r.Dengesizlik = <<20>> /\ r.GOP_Geliri = <<5000000>>
                          /\ r.Dengesizlik_Tutari = <<970000>>
                          /\ r.Net_Gelir = <<5970000>>
                          /\ r.Dengesizlik_Maliyeti = <<30000>>

\* a table with the worked example's row and a table with an under-generation
\* row have been built
C7_Witness ==
    /\ tbl_pc = "built"
    /\ \E i \in 1..Len(pp1_df) :
          /\ Known(pp1_df[i])
          /\ pp1_df[i].PTF = <<500>> /\ pp1_df[i].URETIM = <<120>>
          /\ pp1_df[i].Dengesizlik_Maliyeti = <<30000>>

\* C8: Birim_DM is exactly 0 on every row whose URETIM is missing or 0,
\* whatever Dengesizlik_Maliyeti is, and Dengesizlik_Maliyeti / URETIM on every
\* other row; no row's computation divides by zero.
C8_UnitCostGuard ==
    /\ tbl_exc # "ZeroDivisionError"
    /\ tbl_pc = "built" =>
          \A i \in 1..Len(pp1_df) :
              LET r == pp1_df[i] IN
              IF r.URETIM = NaN \/ r.URETIM = <<0>>
              THEN r.Birim_DM = <<0>>
              ELSE IF r.Dengesizlik_Maliyeti = NaN
                   THEN r.Birim_DM = NaN
                   ELSE /\ r.Birim_DM = <<r.Dengesizlik_Maliyeti[1], r.URETIM[1]>>
                        /\ r.Birim_DM[2] # 0

\* a row with URETIM = 0 and a non-zero imbalance cost got Birim_DM = 0
C8_Witness ==
    /\ tbl_pc = "built"
    /\ \E i \in 1..Len(pp1_df) :
          /\ pp1_df[i].URETIM = <<0>>
          /\ pp1_df[i].Dengesizlik_Maliyeti # NaN
          /\ pp1_df[i].Dengesizlik_Maliyeti # <<0>>
          /\ pp1_df[i].Birim_DM = <<0>>

SumColumns ==
    {"URETIM", "Dengesizlik", "GOP_Geliri", "Dengesizlik_Tutari", "Net_Gelir",
     "Dengesizlik_Maliyeti"}

\* C9: for a table that is not empty build_monthly_summary returns 13 rows,
\* months 1..12 in ascending order and then the Total row, and a month without
\* hourly rows has its six sums and its two per-unit ratios equal to 0.
C9_ThirteenRows ==
    tbl_pc = "summarised" =>
        /\ Len(sum1) = 13
        /\ \A m \in 1..12 : sum1[m].Ay = <<m>>
        /\ sum1[13].Ay = <<"Toplam">>
        /\ \A m \in 1..12 :
              (\A i \in 1..Len(pp1_df) : pp1_df[i].Ay # <<m>>) =>
                  /\ \A c \in SumColumns : sum1[m][c] = <<0>>
                  /\ sum1[m].Birim_Gelir = <<0>>
                  /\ sum1[m].Birim_Deng_Maliyeti = <<0>>

\* a summary of a table with rows in January and none in December
C9_Witness ==
    /\ tbl_pc = "summarised"
    /\ Len(sum1) = 13
    /\ sum1[1].URETIM # <<0>>
    /\ sum1[2].URETIM # <<0>>
    /\ sum1[12].URETIM = <<0>>

\* C10: in the Total row every summed column is the sum of that column over
\* the 12 month rows and over all hourly rows of the input, and the two
\* per-unit ratios are total Net_Gelir / total URETIM and total
\* Dengesizlik_Maliyeti / total URETIM (0 when total URETIM is 0).
C10_TotalRow ==
    tbl_pc = "summarised" =>
        LET T == sum1[Len(sum1)]
            months == SubSeq(sum1, 1, Len(sum1) - 1)
            uretim == SumCol(pp1_df, "URETIM")
        IN  /\ \A c \in SumColumns :
                  /\ T[c] = <<SumCol(months, c)>>
                  /\ T[c] = <<SumCol(pp1_df, c)>>
            /\ T.Birim_Gelir =
                  IF uretim = 0 THEN <<0>> ELSE <<SumCol(pp1_df, "Net_Gelir"), uretim>>
            /\ T.Birim_Deng_Maliyeti =
                  IF uretim = 0 THEN <<0>>
                  ELSE <<SumCol(pp1_df, "Dengesizlik_Maliyeti"), uretim>>

\* C15: a raw record whose day and hour do not combine into a valid
\* timestamp never makes build_plant_dataframe raise and never contributes a
\* row to the hourly table, also when both the generation-plan table and the
\* realized-generation table hold such records.
C15_UnparsableDropped ==
    /\ tbl_pc = "raised" =>
          (tbl_exc = "KeyError" /\ (ptf_df = <<>> \/ smf_df = <<>>))
    /\ tbl_pc = "built" =>
          \A i \in 1..Len(pp1_df) : RowStamp(pp1_df[i]) # NaN

(***************************************************************************)
(* Claims about _col_letter.                                               *)
(***************************************************************************)
\* the place of a letter in the alphabet, 1 for A .. 26 for Z
PosOf(c) == CHOOSE k \in 1..26 : Alphabet[k] = c

\* the number a letter string denotes in bijective base 26 (A = 1, Z = 26,
\* AA = 27): read from the left, value * 26 + place
RECURSIVE Bijective26(_)
Bijective26(l) ==
    IF l = <<>> THEN 0
    ELSE Bijective26(SubSeq(l, 1, Len(l) - 1)) * 26 + PosOf(l[Len(l)])

\* the letters of the indices the claim lists
ListedLetters(i) ==
    CASE i \in 0..25 -> <<Alphabet[i + 1]>>
      [] i = 26 -> <<"A", "A">>
      [] i = 51 -> <<"A", "Z">>
      [] i = 52 -> <<"B", "A">>
      [] i = 701 -> <<"Z", "Z">>
      [] i = 702 -> <<"A", "A", "A">>
      [] OTHER -> letters

ColLetterReturned ==
    col_pc = "returned" =>
        /\ Bijective26(letters) = idx_zero_based + 1
        /\ letters = ListedLetters(idx_zero_based)
        /\ \A j \in 0..MaxIdx : j # idx_zero_based => col_letter(j) # letters

\* C17: _col_letter returns the bijective base-26 numeral of the zero-based
\* index (0..25 give A..Z, 26 AA, 51 AZ, 52 BA, 701 ZZ, 702 AAA), the loop
\* ends for every index >= 0, and two distinct indices never give the same
\* letters.
C17_ColLetter == [](ColLetterReturned) /\ <>(col_pc = "returned")

\* _col_letter(702) has returned AAA after three passes of the loop
C17_Witness ==
    /\ col_pc = "returned"
    /\ idx_zero_based = 702
    /\ letters = <<"A", "A", "A">>

(***************************************************************************)
(* Claims about _build_datetime.                                           *)
(***************************************************************************)
Txt_2024_03_05 == <<"2", "0", "2", "4", "-", "0", "3", "-", "0", "5">>
Txt_2024_03_05_T == <<"2", "0", "2", "4", "-", "0", "3", "-", "0", "5", "T", "0", "9", ":", "1", "5", ":", "0", "0", "+", "0", "3", ":", "0", "0">>
Txt_14_30_00 == <<"1", "4", ":", "3", "0", ":", "0", "0">>
Txt_14_30 == <<"1", "4", ":", "3", "0">>
Txt_09_15 == <<"0", "9", ":", "1", "5">>

\* two digits, a colon, two digits at position i of a text
TimeAt(str, i) ==
    /\ i + 4 <= Len(str)
    /\ \A k \in {i, i + 1, i + 3, i + 4} : IsDigit(str[k])
    /\ str[i + 2] = ":"

\* four digits, a dash, two digits, a dash, two digits at the start of a text
DayAtStart(str) ==
    /\ Len(str) >= 10
    /\ \A k \in {1, 2, 3, 4, 6, 7, 9, 10} : IsDigit(str[k])
    /\ str[5] = "-" /\ str[8] = "-"

\* the places of the date field where a T is followed by HH:MM
TPlaces == {i \in 1..Len(bd_date) : bd_date[i] = "T" /\ TimeAt(bd_date, i + 1)}

\* the hour field has an HH:MM at its start (a missing hour field has none)
HourFieldHasTime == bd_hour # NaN /\ TimeAt(bd_hour, 1)

\* C18: the hour is the HH:MM at the start of the hour field if it has one,
\* otherwise the HH:MM after a T in the date field, otherwise 00:00; the day
\* is the YYYY-MM-DD prefix of the date field; the three examples of the
\* claim give 14:30, 09:15 and 00:00, and the hour field wins over a time
\* embedded in the date field.
C18_HourPriority ==
    bd_pc = "returned" =>
        /\ HourFieldHasTime => bd_out.Saat = SubSeq(bd_hour, 1, 5)
        /\ (~HourFieldHasTime /\ TPlaces # {}) =>
              \E i \in TPlaces : bd_out.Saat = SubSeq(bd_date, i + 1, i + 5)
        /\ (~HourFieldHasTime /\ TPlaces = {}) => bd_out.Saat = <<"0", "0", ":", "0", "0">>
        /\ DayAtStart(bd_date) => bd_out.Tarih = SubSeq(bd_date, 1, 10)
        /\ (bd_date = Txt_2024_03_05 /\ bd_hour = Txt_14_30_00) =>
              bd_out.Saat = Txt_14_30
        /\ (bd_date = Txt_2024_03_05_T /\ bd_hour = NaN) => bd_out.Saat = Txt_09_15
        /\ (bd_date = Txt_2024_03_05 /\ bd_hour = NaN) => bd_out.Saat = <<"0", "0", ":", "0", "0">>
        /\ (bd_date = Txt_2024_03_05_T /\ bd_hour = Txt_14_30_00) =>
              bd_out.Saat = Txt_14_30

\* the record ("2024-03-05T09:15:00+03:00", "14:30:00") got the hour 14:30
C18_Witness ==
    /\ bd_pc = "returned"
    /\ bd_date = Txt_2024_03_05_T
    /\ bd_hour = Txt_14_30_00
    /\ bd_out.Saat = Txt_14_30

(***************************************************************************)
(* Claims about the extras and the workbook.                               *)
(***************************************************************************)
\* the hourly table, the extras, the summary and the block's first row of
\* plant p (1 or 2)
PlantDf(p) == IF p = 1 THEN pp1_df ELSE pp2_df
PlantExtras(p) == IF p = 1 THEN pp1_extras ELSE pp2_extras
PlantSum(p) == IF p = 1 THEN sum1 ELSE sum2
BlockStart(p) == IF p = 1 THEN 0 ELSE 18

\* the comparison-sheet cell of plant p's block in the row of month m (13:
\* the totals row) and the column with header h
CompCell(p, m, h) ==
    LET c == CHOOSE j \in 0..19 :
                 xlsx.Karsilastirma[<<BlockStart(p) + 2, j>>] = [t |-> "string", s |-> h]
    IN  xlsx.Karsilastirma[<<BlockStart(p) + 2 + m, c>>]

\* the sum of imbalance cost over the rows of month m whose imbalance has the
\* given sign (1: over-generation, -1: under-generation)
RECURSIVE CostOfSign(_, _, _)
CostOfSign(df, m, sign) ==
    IF df = <<>> THEN 0
    ELSE LET r == Head(df)
             counts == /\ r.Ay = <<m>>
                       /\ r.Dengesizlik # NaN
                       /\ r.Dengesizlik[1] * sign > 0
                       /\ r.Dengesizlik_Maliyeti # NaN
         IN  (IF counts THEN r.Dengesizlik_Maliyeti[1] ELSE 0)
             + CostOfSign(Tail(df), m, sign)

\* C11: for every month, compute_monthly_extras leaves the cost-asymmetry
\* ratio undefined (None, not 0) when the month's imbalance cost over its
\* under-generation hours sums to 0, and otherwise it is (cost over the
\* over-generation hours) / (cost over the under-generation hours); the
\* comparison sheet shows the undefined ratio as a blank cell, never as 0.
C11_AsymRatio ==
    pipe_pc = "done" =>
        \A p \in {1, 2} : \A m \in 1..12 :
            LET pos == CostOfSign(PlantDf(p), m, 1)
                neg == CostOfSign(PlantDf(p), m, 0 - 1)
                cell == CompCell(p, m, "Maliyet Asimetrisi (Poz/Neg)")
            IN  IF neg = 0
                THEN /\ PlantExtras(p).asym_ratio[m] = NaN
                     /\ cell = [t |-> "blank"]
                ELSE /\ PlantExtras(p).asym_ratio[m] = <<pos, neg>>
                     /\ cell = [t |-> "number", v |-> <<pos, neg>>]

\* plant 1 has over- and under-generation hours in January (a ratio with a
\* non-zero numerator), plant 2 has only over-generation hours in February
\* (cost, but an undefined ratio)
C11_Witness ==
    /\ pipe_pc = "done"
    /\ pp1_extras.asym_ratio[1] # NaN
    /\ pp1_extras.asym_ratio[1][1] > 0
    /\ pp2_extras.asym_ratio[2] = NaN
    /\ CostOfSign(pp2_df, 2, 1) > 0

(***************************************************************************)
(* Recalculating the comparison sheet: the value a spreadsheet program     *)
(* computes for a cell, read from the workbook alone.                      *)
(***************************************************************************)
\* the cell of a detail sheet at a column (by letters) and a row from 2 on
DetailCell(sheet, col, xrow) ==
    xlsx[sheet].data[xrow - 1][xlsx[sheet].header[Bijective26(col)]]

RECURSIVE SumVals(_)
SumVals(seq) ==
    IF seq = <<>> THEN 0
    ELSE (IF Head(seq) = NaN THEN 0 ELSE Head(seq)[1]) + SumVals(Tail(seq))

\* the value of the comparison-sheet cell at a column (by letters) and a row
\* from 1 on: a number cell is its number; SUMIF adds the cells of the sum
\* range whose cell of the range equals the criterion cell's value; SUM adds
\* the cells of its rows; IF(x=0,0,y/x) is 0 or the quotient
RECURSIVE EvalCell(_, _)
EvalCell(col, xrow) ==
    LET cell == xlsx.Karsilastirma[<<xrow - 1, Bijective26(col) - 1>>]
    IN  CASE cell.t = "number" -> cell.v
          [] cell.t = "formula" /\ cell.op = "SUMIF" ->
                LET crit == EvalCell(cell.criterion[1], cell.criterion[2])
                    first == cell.range[2]
                    n == cell.range[3] - first + 1
                IN  <<SumVals([k \in 1..n |->
                        IF DetailCell(cell.sheet, cell.range[1], first + k - 1) = crit
                        THEN DetailCell(cell.sheet, cell.sum_range[1],
                                        cell.sum_range[2] + k - 1)
                        ELSE NaN])>>
          [] cell.t = "formula" /\ cell.op = "SUM" ->
                <<SumVals([k \in 1..(cell.last - cell.first + 1) |->
                              EvalCell(cell.col, cell.first + k - 1)])>>
          [] cell.t = "formula" /\ cell.op = "IF0" ->
                LET x == EvalCell(cell.test[1], cell.test[2])
                    y == EvalCell(cell.num[1], cell.num[2])
                IN  IF x = <<0>> THEN <<0>> ELSE <<y[1], x[1]>>
          [] OTHER -> NaN

\* the summary columns: the comparison sheet's column letter, the column of
\* build_monthly_summary and, for a summed column, the detail-sheet header
SummaryCols ==
    <<<<"B", "URETIM", "Gerceklesen Uretim">>,
      <<"C", "Dengesizlik", "Dengesizlik Miktari">>,
      <<"D", "GOP_Geliri", "GOP Geliri">>,
      <<"E", "Dengesizlik_Tutari", "Dengesizlik Tutari">>,
      <<"F", "Net_Gelir", "Toplam (Net) Gelir">>,
      <<"G", "Birim_Gelir", "">>,
      <<"H", "Dengesizlik_Maliyeti", "Dengesizlik Maliyeti">>,
      <<"I", "Birim_Deng_Maliyeti", "">>>>

\* the Excel row of month m (13: the totals row) in the block of plant p
XRow(p, m) == BlockStart(p) + 3 + m

SheetOf(p) == IF p = 1 THEN "Santral_1" ELSE "Santral_2"

\* C12: in both blocks every formula cell of the summary columns, evaluated
\* against the detail sheets of the same workbook, gives the number
\* build_monthly_summary gave for that plant, month (or Total) and column;
\* each month row's SUMIF is over the plant's own detail sheet, rows 2 to the
\* last data row, the Ay column as range and the right column as sum range;
\* each Total SUM is over the 12 month cells of its own block and column.
C12_FormulasMatchSummary ==
    pipe_pc = "done" =>
        \A p \in {1, 2} : \A j \in 1..Len(SummaryCols) :
            LET col == <<SummaryCols[j][1]>>
                field == SummaryCols[j][2]
                detail == SummaryCols[j][3]
            IN  /\ \A m \in 1..13 : EvalCell(col, XRow(p, m)) = PlantSum(p)[m][field]
                /\ detail # "" =>
                      /\ \A m \in 1..12 :
                            LET f == xlsx.Karsilastirma[<<XRow(p, m) - 1, j>>]
                            IN  /\ f.t = "formula" /\ f.op = "SUMIF"
                                /\ f.sheet = SheetOf(p)
                                /\ f.range[2] = 2 /\ f.sum_range[2] = 2
                                /\ f.range[3] = Len(PlantDf(p)) + 1
                                /\ f.sum_range[3] = Len(PlantDf(p)) + 1
                                /\ xlsx[SheetOf(p)].header[Bijective26(f.range[1])] = "Ay"
                                /\ xlsx[SheetOf(p)].header[Bijective26(f.sum_range[1])]
                                      = detail
                      /\ LET f == xlsx.Karsilastirma[<<XRow(p, 13) - 1, j>>]
                         IN  /\ f.t = "formula" /\ f.op = "SUM"
                             /\ f.col = col
                             /\ f.first = XRow(p, 1) /\ f.last = XRow(p, 12)

\* plant 1 has two rows in January, and the month and Total cells of
\* realized generation and the Total ratios evaluate to non-zero numbers
C12_Witness ==
    /\ pipe_pc = "done"
    /\ Len(pp1_df) = 2
    /\ pp1_df[1].Ay = <<1>> /\ pp1_df[2].Ay = <<1>>
    /\ EvalCell(<<"B">>, XRow(1, 1)) # <<0>>
    /\ EvalCell(<<"B">>, XRow(1, 13)) # <<0>>
    /\ EvalCell(<<"G">>, XRow(2, 13)) # <<0>>
    /\ EvalCell(<<"I">>, XRow(1, 13)) # <<0>>


(***************************************************************************)
(* The extended-KPI columns of the comparison sheet.                       *)
(***************************************************************************)
\* the columns of the eleven extended KPIs, counted from 0
ExtendedCols == Len(base_headers)..(Len(headers_comp) - 1)

\* the two extended KPIs the totals row sums
SummedExtras == {"En Maliyetli 5 Gun (TL)", "Uretim Saati (saat)"}

\* the cell of plant p's block in the row of month m (13: the totals row)
\* and column c
ExtCell(p, m, c) == xlsx.Karsilastirma[<<XRow(p, m) - 1, c>>]

\* C16 as stated: in both blocks, every cell of the 11 extended-KPI columns,
\* in the month rows and in the totals row, holds a static value or is empty;
\* none holds a formula.
C16_Original ==
    pipe_pc = "done" =>
        \A p \in {1, 2} : \A m \in 1..13 : \A c \in ExtendedCols :
            ExtCell(p, m, c).t \in {"number", "blank", "empty"}

\* C16: in both blocks, every month-row cell of the 11 extended-KPI columns
\* holds the value compute_monthly_extras gave for that plant, month and KPI
\* (a blank cell for an undefined value) and never a formula; in the totals
\* row the cells of "En Maliyetli 5 Gun (TL)" and "Uretim Saati (saat)" hold
\* a SUM formula over the block's 12 month cells of their own column, and the
\* cells of the other nine extended-KPI columns are empty.
C16_ExtendedColumns ==
    pipe_pc = "done" =>
        \A p \in {1, 2} : \A c \in ExtendedCols :
            LET key == extra_keys[c - Len(base_headers) + 1]
                total == ExtCell(p, 13, c)
            IN  /\ \A m \in 1..12 :
                      /\ ExtCell(p, m, c).t \in {"number", "blank"}
                      /\ ExtCell(p, m, c) = write(PlantExtras(p)[key][m])
                /\ IF headers_comp[c + 1] \in SummedExtras
                   THEN /\ total.t = "formula" /\ total.op = "SUM"
                        /\ total.col = col_letter(c)
                        /\ total.first = XRow(p, 1) /\ total.last = XRow(p, 12)
                   ELSE total = [t |-> "empty"]

\* a workbook whose January top-5 cost of plant 1 is a non-zero number, whose
\* January asymmetry ratio of plant 2 is blank and whose totals row holds the
\* two SUM formulas
C16_Witness ==
    /\ pipe_pc = "done"
    /\ CompCell(1, 1, "En Maliyetli 5 Gun (TL)").t = "number"
    /\ CompCell(1, 1, "En Maliyetli 5 Gun (TL)").v # Num(0)
    /\ CompCell(2, 1, "Maliyet Asimetrisi (Poz/Neg)") = [t |-> "blank"]
    /\ CompCell(1, 13, "En Maliyetli 5 Gun (TL)").t = "formula"
    /\ CompCell(2, 13, "Uretim Saati (saat)").t = "formula"

====
